---- MODULE Spec2Model ----
(***************************************************************************)
(* Model of the streaming-zarr notebook (src/example.ipynb): the key       *)
(* helpers get_all_keys / get_most_recent_key, the periodic plot refresh   *)
(* update(), and the bulk loader load_as_dask_array.                       *)
(*                                                                         *)
(* Python strings are modelled as sequences of one-character strings, so   *)
(* that str.split and int() are computed character by character.          *)
(***************************************************************************)
EXTENDS Integers, Sequences, FiniteSets, TLC

(***************************************************************************)
(* Bounds of the model.                                                    *)
(***************************************************************************)
\* longest raw-key listing handed to get_all_keys in SpecKeys
MaxKeys == 3
\* number of per-process string-hash seeds explored
NumSeeds == 3
\* calls of get_all_keys made on one listing in SpecKeys
MaxCalls == 2
\* the timestep the store holds when the plot is set up
FirstStep == 9
\* timesteps the simulation writes, the first included
NumSteps == 3
\* longest list of keys handed to load_as_dask_array in SpecLoad
MaxLoad == 2

(***************************************************************************)
(* Characters and strings.                                                 *)
(***************************************************************************)
Alphabet ==
    << "0", "1", "2", "3", "4", "5", "6", "7", "8", "9",
       ".", "-", "+", "_", " ", "/", "a", "b", "x", "z", "g", "r", "o", "u", "p" >>

\* ord(c), up to a renumbering: the position of c in Alphabet
Code(c) == CHOOSE i \in 1..Len(Alphabet) : Alphabet[i] = c

IsDigit(c) == c \in {"0", "1", "2", "3", "4", "5", "6", "7", "8", "9"}

DigitVal(c) == Code(c) - 1

\* the literal '.zgroup' of get_all_keys
Marker == << ".", "z", "g", "r", "o", "u", "p" >>

(***************************************************************************)
(* s.split('/')[0]: the characters before the first '/', the whole string  *)
(* when it holds none.                                                     *)
(***************************************************************************)
RECURSIVE SplitFirst(_)
SplitFirst(s) ==
    IF s = << >> \/ Head(s) = "/"
    THEN << >>
    ELSE << Head(s) >> \o SplitFirst(Tail(s))

(***************************************************************************)
(* int(s), Python 3: surrounding whitespace is stripped, one sign is       *)
(* allowed, then decimal digits, single underscores allowed between        *)
(* digits.  PyIntOk says whether int(s) returns; otherwise it raises       *)
(* ValueError.                                                             *)
(***************************************************************************)
RECURSIVE LStrip(_)
LStrip(s) == IF s # << >> /\ Head(s) = " " THEN LStrip(Tail(s)) ELSE s

RECURSIVE RStrip(_)
RStrip(s) ==
    IF s # << >> /\ s[Len(s)] = " " THEN RStrip(SubSeq(s, 1, Len(s) - 1)) ELSE s

Strip(s) == RStrip(LStrip(s))

Negative(s) == Strip(s) # << >> /\ Head(Strip(s)) = "-"

Unsigned(s) ==
    LET t == Strip(s)
    IN  IF t # << >> /\ Head(t) \in {"+", "-"} THEN Tail(t) ELSE t

DigitsOk(d) ==
    /\ d # << >>
    /\ IsDigit(d[1])
    /\ IsDigit(d[Len(d)])
    /\ \A i \in 1..Len(d) : IsDigit(d[i]) \/ d[i] = "_"
    /\ \A i \in 1..(Len(d) - 1) : ~(d[i] = "_" /\ d[i + 1] = "_")

PyIntOk(s) == DigitsOk(Unsigned(s))

RECURSIVE Magnitude(_)
Magnitude(d) ==
    IF d = << >>
    THEN 0
    ELSE LET init == SubSeq(d, 1, Len(d) - 1)
             c == d[Len(d)]
         IN  IF c = "_" THEN Magnitude(init) ELSE 10 * Magnitude(init) + DigitVal(c)

PyInt(s) == IF Negative(s) THEN 0 - Magnitude(Unsigned(s)) ELSE Magnitude(Unsigned(s))

(***************************************************************************)
(* list(set(l)): the distinct elements of l in the set's iteration order.  *)
(* CPython keeps a set in an open-addressed hash table and iterates it     *)
(* slot by slot; the slot of a string comes from its hash, which is salted *)
(* per interpreter process, and from the insertions made before it.  The   *)
(* order is therefore a function of (process seed, insertion sequence):    *)
(* fixed within a process, arbitrary across processes.                     *)
(***************************************************************************)
\* slots of the hash table of a small set
TableSize == 8

Seeds == 0..(NumSeeds - 1)

NoKey == << "<empty slot>" >>

RECURSIVE StrHash(_, _)
StrHash(seed, s) ==
    IF s = << >>
    THEN seed
    ELSE (StrHash(seed, SubSeq(s, 1, Len(s) - 1)) * (seed + 3) + Code(s[Len(s)])) % 64

RECURSIVE Probe(_, _, _)
Probe(t, i, s) ==
    IF t[i] = NoKey \/ t[i] = s THEN i ELSE Probe(t, (i + 1) % TableSize, s)

SetAdd(t, seed, s) == [t EXCEPT ![Probe(t, StrHash(seed, s) % TableSize, s)] = s]

RECURSIVE SetOf(_, _)
SetOf(seed, l) ==
    IF l = << >>
    THEN [i \in 0..(TableSize - 1) |-> NoKey]
    ELSE SetAdd(SetOf(seed, SubSeq(l, 1, Len(l) - 1)), seed, l[Len(l)])

RECURSIVE ListFrom(_, _)
ListFrom(t, i) ==
    IF i = TableSize
    THEN << >>
    ELSE (IF t[i] = NoKey THEN << >> ELSE << t[i] >>) \o ListFrom(t, i + 1)

ListOfSet(seed, l) == ListFrom(SetOf(seed, l), 0)

(***************************************************************************)
(* list.remove(x): drops the first element equal to x.  (The caller checks *)
(* membership: on a list without x, remove raises ValueError.)             *)
(***************************************************************************)
Contains(l, x) == \E i \in 1..Len(l) : l[i] = x

RECURSIVE ListRemove(_, _)
ListRemove(l, x) ==
    IF l = << >> THEN << >>
    ELSE IF Head(l) = x THEN Tail(l)
    ELSE << Head(l) >> \o ListRemove(Tail(l), x)

(***************************************************************************)
(* list.sort(key=int): a stable sort on int(k).  Insert puts x behind      *)
(* every element whose key is not greater, so equal keys keep the order    *)
(* they had in the list.                                                   *)
(***************************************************************************)
RECURSIVE Insert(_, _)
Insert(sorted, x) ==
    IF sorted = << >> THEN << x >>
    ELSE IF PyInt(Head(sorted)) <= PyInt(x)
         THEN << Head(sorted) >> \o Insert(Tail(sorted), x)
         ELSE << x >> \o sorted

\* a variant that leaves the list in the set's order
Unsorted(l) == l

RECURSIVE SortByInt(_)
SortByInt(l) ==
    IF l = << >> THEN << >>
    ELSE Insert(SortByInt(SubSeq(l, 1, Len(l) - 1)), l[Len(l)])

(***************************************************************************)
(* Outcome of a call: a returned value, or the exception that left it.     *)
(***************************************************************************)
Return(v) == [exc |-> "none", val |-> v]
Raise(e) == [exc |-> e, val |-> << >>]
NotCalled == [exc |-> "not called", val |-> << >>]

(***************************************************************************)
(* get_all_keys(store), with keylist the list store.keylist() returned.    *)
(***************************************************************************)
\* line 81: the distinct prefixes, in the set's iteration order
Prefixes(keylist) == [i \in 1..Len(keylist) |-> SplitFirst(keylist[i])]

DistinctPrefixes(seed, keylist) == ListOfSet(seed, Prefixes(keylist))

\* a variant that works on the list keylist() returned itself
KeylistAfterInPlace(keylist) == ListRemove(keylist, Marker)

\* line 81 builds new lists: the list keylist() returned is left as it was
KeylistAfter(keylist) == keylist

\* a variant that returns right after line 81
get_all_keys_unfiltered(seed, keylist) == Return(DistinctPrefixes(seed, keylist))

get_all_keys(seed, keylist) ==
    LET keys == DistinctPrefixes(seed, keylist)
    IN  IF ~Contains(keys, Marker)
        THEN Raise("ValueError")                       \* keys.remove('.zgroup')
        ELSE LET rest == ListRemove(keys, Marker)
             IN  IF \E i \in 1..Len(rest) : ~PyIntOk(rest[i])
                 THEN Raise("ValueError")              \* keys.sort(key=int)
                 ELSE Return(SortByInt(rest))

(***************************************************************************)
(* get_most_recent_key(store): keys[-1] of get_all_keys; an exception of   *)
(* get_all_keys propagates, and keys[-1] of an empty list raises           *)
(* IndexError.                                                             *)
(***************************************************************************)
\* a variant that takes keys[0]
FirstOf(keys) == keys[1]

LastOf(keys) == keys[Len(keys)]

get_most_recent_key(seed, keylist) ==
    LET r == get_all_keys(seed, keylist)
    IN  IF r.exc # "none" THEN r
        ELSE IF r.val = << >> THEN Raise("IndexError")
        ELSE Return(LastOf(r.val))

(***************************************************************************)
(* Raw keys.  Key(id, suffix) is the store key "<id>/<suffix>".            *)
(***************************************************************************)
Key(id, suffix) == id \o << "/" >> \o suffix

ZArray == << ".", "z", "a", "r", "r", "a", "y" >>

\* the raw keys the listings of SpecKeys are drawn from
KeyPool ==
    { Marker,
      Key(Marker, << "x" >>),
      Key(<< "2" >>, << "a" >>),
      Key(<< "2" >>, << "b" >>),
      Key(<< "1", "0" >>, << "a" >>),
      Key(<< "0", "7" >>, << "a" >>),
      << "7" >>,
      Key(<< "7", "x" >>, << "a" >>),
      Key(<< "-", "3" >>, << "a" >>) }

RECURSIVE SeqsUpTo(_, _)
SeqsUpTo(S, n) ==
    IF n = 0 THEN { << >> }
    ELSE LET shorter == SeqsUpTo(S, n - 1)
         IN  shorter \cup { Append(l, x) : l \in shorter, x \in S }

(***************************************************************************)
(* The store and what is around it.                                        *)
(***************************************************************************)
\* str(n) of the writer's timestep counter
RECURSIVE Str(_)
Str(n) ==
    IF n < 10 THEN << Alphabet[n + 1] >>
    ELSE Str(n \div 10) \o << Alphabet[(n % 10) + 1] >>

\* the array zarr.open_array finds under path; get() returns its contents
Grid(path) == [path |-> path]

\* zarr.open_array(store, mode='r', path): the array's metadata key must be
\* in the store, else it raises the array-not-found ValueError
ArrayExists(st, path) == Key(path, ZArray) \in st

\* store.keylist(): the keys of the store, in an order the server chooses
RECURSIVE Orderings(_)
Orderings(S) ==
    IF S = { } THEN { << >> }
    ELSE UNION { { << x >> \o l : l \in Orderings(S \ { x }) } : x \in S }

NoValue == << >>

(***************************************************************************)
(* State.                                                                  *)
(***************************************************************************)
VARIABLES
    hashSeed,   \* the interpreter process's string-hash seed
    rawKeys,    \* SpecKeys: the list store.keylist() returns
    lsRes,      \* SpecKeys: outcome of the latest get_all_keys call
    lsCalls,    \* SpecKeys: get_all_keys calls made so far
    mrRes,      \* SpecKeys: outcome of the latest get_most_recent_key call
    store,      \* the raw keys now in the Redis store
    evicting,   \* whether the Redis server evicts keys
    nextStep,   \* the timestep the simulation writes next
    pc,         \* where update() stands
    listed,     \* the keys store.keylist() returned to this update()
    key,        \* update's local key
    data,       \* update's local data
    img,        \* source.data['img']
    title,      \* p2d.title.text
    shown,      \* what push_notebook last sent to the notebook
    before,     \* img, title and shown when this update() began
    outcome,    \* how the latest update() ended
    loadKeys,   \* SpecLoad: the argument of load_as_dask_array
    li,         \* SpecLoad: index of the key the loop is at
    dask_arrays,\* SpecLoad: the local list dask_arrays
    labels,     \* SpecLoad: the local list labels
    loadPc      \* SpecLoad: where load_as_dask_array stands

keyVars == << rawKeys, lsRes, lsCalls, mrRes >>

storeVars == << store, evicting, nextStep >>

updateVars == << pc, listed, key, data, img, title, shown, before, outcome >>

loadVars == << loadKeys, li, dask_arrays, labels, loadPc >>

vars == << hashSeed, keyVars, storeVars, updateVars, loadVars >>

\* the variables a specification does not use
KeysIdle == rawKeys = << >> /\ lsRes = NotCalled /\ lsCalls = 0 /\ mrRes = NotCalled

UpdateIdle ==
    /\ pc = "idle" /\ listed = { } /\ key = NoValue /\ data = NoValue
    /\ img = NoValue /\ title = NoValue /\ shown = NoValue /\ before = NoValue
    /\ outcome = "none"

LoadIdle ==
    /\ loadKeys = << >> /\ li = 1 /\ dask_arrays = << >> /\ labels = << >>
    /\ loadPc = "idle"

(***************************************************************************)
(* SpecKeys: the two helpers applied to a fixed listing.                   *)
(***************************************************************************)
InitKeys ==
    /\ hashSeed \in Seeds
    /\ rawKeys \in SeqsUpTo(KeyPool, MaxKeys)
    /\ lsRes = NotCalled
    /\ lsCalls = 0
    /\ mrRes = NotCalled
    /\ store = { } /\ evicting = FALSE /\ nextStep = 0
    /\ UpdateIdle
    /\ LoadIdle

CallGetAllKeys ==
    /\ lsCalls < MaxCalls
    /\ lsRes' = get_all_keys(hashSeed, rawKeys)
    /\ rawKeys' = KeylistAfter(rawKeys)
    /\ lsCalls' = lsCalls + 1
    /\ UNCHANGED << hashSeed, mrRes, storeVars, updateVars, loadVars >>

CallGetMostRecentKey ==
    /\ mrRes = NotCalled
    /\ mrRes' = get_most_recent_key(hashSeed, rawKeys)
    /\ rawKeys' = KeylistAfter(rawKeys)
    /\ UNCHANGED << hashSeed, lsRes, lsCalls, storeVars, updateVars, loadVars >>

NextKeys == CallGetAllKeys \/ CallGetMostRecentKey

SpecKeys == InitKeys /\ [][NextKeys]_vars

(***************************************************************************)
(* The store's other clients: the simulation writes each timestep under a  *)
(* key of its own, and the server may evict any key.                       *)
(***************************************************************************)
WriterStep ==
    /\ nextStep < FirstStep + NumSteps
    /\ store' = store \cup { Key(Str(nextStep), ZArray) }
    /\ nextStep' = nextStep + 1
    /\ UNCHANGED << hashSeed, evicting, keyVars, updateVars, loadVars >>

Evict ==
    /\ evicting
    /\ \E k \in store : store' = store \ { k }
    /\ UNCHANGED << hashSeed, evicting, nextStep, keyVars, updateVars, loadVars >>

(***************************************************************************)
(* update(), the periodic callback.  Each action is one stretch of it      *)
(* between two round trips to the store; an exception leaves update(), and *)
(* PeriodicCallback runs it again at the next period.                      *)
(***************************************************************************)
\* line 197: key = get_most_recent_key(store)
UpdateResolve ==
    /\ pc = "idle"
    /\ before' = [img |-> img, title |-> title, shown |-> shown]
    /\ listed' = store
    /\ \E keylist \in Orderings(store) :
           LET r == get_most_recent_key(hashSeed, keylist)
           IN  IF r.exc = "none"
               THEN key' = r.val /\ pc' = "get" /\ outcome' = "running"
               ELSE key' = NoValue /\ pc' = "idle" /\ outcome' = "no key"
    /\ data' = NoValue
    /\ UNCHANGED << hashSeed, keyVars, storeVars, img, title, shown, loadVars >>

\* a variant that sets the title before it reads the array
UpdateGetTitleFirst ==
    /\ pc = "get"
    /\ title' = key
    /\ IF ArrayExists(store, key)
       THEN data' = Grid(key) /\ pc' = "patch" /\ outcome' = outcome
       ELSE data' = NoValue /\ pc' = "idle" /\ outcome' = "read failed"
    /\ UNCHANGED << hashSeed, keyVars, storeVars, listed, key, img, shown,
                    before, loadVars >>

\* line 198: data = get(key)
UpdateGet ==
    /\ pc = "get"
    /\ IF ArrayExists(store, key)
       THEN data' = Grid(key) /\ pc' = "patch" /\ outcome' = outcome
       ELSE data' = NoValue /\ pc' = "idle" /\ outcome' = "read failed"
    /\ UNCHANGED << hashSeed, keyVars, storeVars, listed, key, img, title, shown,
                    before, loadVars >>

\* lines 199-200: source.patch({'img': [(index, data.flatten())]})
UpdatePatch ==
    /\ pc = "patch"
    /\ img' = data
    /\ pc' = "title"
    /\ UNCHANGED << hashSeed, keyVars, storeVars, listed, key, data, title, shown,
                    before, outcome, loadVars >>

\* lines 201-202: p2d.title.text = f"... Timestep: {key}"
UpdateTitle ==
    /\ pc = "title"
    /\ title' = key
    /\ pc' = "push"
    /\ UNCHANGED << hashSeed, keyVars, storeVars, listed, key, data, img, shown,
                    before, outcome, loadVars >>

\* line 203: push_notebook(handle)
UpdatePush ==
    /\ pc = "push"
    /\ shown' = [img |-> img, title |-> title]
    /\ pc' = "idle"
    /\ outcome' = "pushed"
    /\ UNCHANGED << hashSeed, keyVars, storeVars, listed, key, data, img, title,
                    before, loadVars >>

(***************************************************************************)
(* Spec: the plot is set up on a store that holds the group marker and the *)
(* first timestep (lines 161-176), then update() runs again and again      *)
(* beside the writer and the evicting server.                              *)
(***************************************************************************)
Init ==
    /\ hashSeed \in Seeds
    /\ KeysIdle
    /\ store = { Marker, Key(Str(FirstStep), ZArray) }
    /\ evicting \in BOOLEAN
    /\ nextStep = FirstStep + 1
    /\ pc = "idle"
    /\ listed = { }
    /\ key = NoValue
    /\ data = NoValue
    /\ img = Grid(Str(FirstStep))
    /\ title = Str(FirstStep)
    /\ shown = [img |-> Grid(Str(FirstStep)), title |-> Str(FirstStep)]
    /\ before = NoValue
    /\ outcome = "none"
    /\ LoadIdle

Next ==
    \/ WriterStep
    \/ Evict
    \/ UpdateResolve
    \/ UpdateGet
    \/ UpdatePatch
    \/ UpdateTitle
    \/ UpdatePush

Spec == Init /\ [][Next]_vars

(***************************************************************************)
(* Vocabulary of the properties of the two helpers.                        *)
(***************************************************************************)
\* the identifiers that survive de-duplication and removal of the marker
Survivors(keylist) == { SplitFirst(keylist[i]) : i \in 1..Len(keylist) } \ { Marker }

\* a non-negative base-10 integer: one or more decimal digits
NonNegDecimal(s) == s # << >> /\ \A i \in 1..Len(s) : IsDigit(s[i])

\* every prefix is a non-negative base-10 integer or the marker
WellFormed(keylist) ==
    \A i \in 1..Len(keylist) :
        SplitFirst(keylist[i]) = Marker \/ NonNegDecimal(SplitFirst(keylist[i]))

Elements(l) == { l[i] : i \in 1..Len(l) }

\* C1: on every non-empty well-formed listing get_all_keys returns exactly the
\* surviving identifiers, strictly ascending by integer value (so no two of
\* them have the same value).
C1_StrictlyAscending ==
    (lsCalls > 0 /\ rawKeys # << >> /\ WellFormed(rawKeys)) =>
        /\ lsRes.exc = "none"
        /\ Elements(lsRes.val) = Survivors(rawKeys)
        /\ \A i, j \in 1..Len(lsRes.val) :
               i < j => PyInt(lsRes.val[i]) < PyInt(lsRes.val[j])

\* C2: on a well-formed listing without the marker get_all_keys succeeds, and
\* on the empty listing it returns the empty list.
C2_SucceedsWithoutMarker ==
    (lsCalls > 0 /\ WellFormed(rawKeys) /\ ~Contains(Prefixes(rawKeys), Marker)) =>
        /\ lsRes.exc = "none"
        /\ Elements(lsRes.val) = Survivors(rawKeys)
        /\ (rawKeys = << >> => lsRes.val = << >>)

\* C3: whenever a surviving identifier is not a non-negative base-10 integer,
\* get_all_keys raises and returns nothing.
C3_MalformedRaises ==
    (lsCalls > 0 /\ \E s \in Survivors(rawKeys) : ~NonNegDecimal(s)) =>
        (lsRes.exc = "ValueError" /\ lsRes.val = << >>)

\* C4: get_most_recent_key fails with the empty-namespace error (IndexError of
\* keys[-1]) exactly when no identifier survives, and returns nothing then.
C4_EmptyNamespaceExactly ==
    mrRes # NotCalled =>
        /\ (mrRes.exc = "IndexError") <=> (Survivors(rawKeys) = { })
        /\ (Survivors(rawKeys) = { } => mrRes.val = << >>)

\* C5: where get_all_keys returns a non-empty list, get_most_recent_key on the
\* same listing returns its last element, whose integer value is at least that
\* of every surviving identifier.
C5_MostRecentIsLast ==
    (lsRes.exc = "none" /\ lsRes.val # << >> /\ mrRes # NotCalled) =>
        /\ mrRes.exc = "none"
        /\ mrRes.val = lsRes.val[Len(lsRes.val)]
        /\ \A s \in Survivors(rawKeys) : PyInt(s) <= PyInt(mrRes.val)

\* both helpers returned on a listing where numeric and lexicographic order differ
C5_Witness ==
    /\ lsRes = Return(<< << "2" >>, << "1", "0" >> >>)
    /\ mrRes = Return(<< "1", "0" >>)

\* C6: the marker is never among the identifiers get_all_keys returns, nor the
\* one get_most_recent_key returns.
C6_MarkerNeverReturned ==
    /\ lsRes.exc = "none" => ~Contains(lsRes.val, Marker)
    /\ mrRes.exc = "none" => mrRes.val # Marker

\* get_all_keys returned identifiers on a listing that names the marker twice
C6_Witness ==
    /\ lsRes.exc = "none"
    /\ lsRes.val # << >>
    /\ Cardinality({ i \in 1..Len(rawKeys) : SplitFirst(rawKeys[i]) = Marker }) >= 2

C8_RefreshConsistent ==
    /\ outcome = "pushed" =>
           /\ \E keylist \in Orderings(listed) :
                  get_most_recent_key(hashSeed, keylist) = Return(shown.title)
           /\ shown.title = key
           /\ shown.img = data
           /\ data = Grid(key)
    /\ outcome = "read failed" =>
           [img |-> img, title |-> title, shown |-> shown] = before

\* an update() pushed a timestep although the store changed while it ran and no
\* longer holds the array it shows
C8_Witness ==
    /\ outcome = "pushed"
    /\ listed # store
    /\ ~ArrayExists(store, shown.title)

\* C9: while the server evicts nothing, no step lowers the timestep the
\* notebook shows.  (With eviction it can drop: C9_Witness.)
C9_NeverDecreases ==
    [][ ~evicting => PyInt(shown'.title) >= PyInt(shown.title) ]_vars

\* with eviction, an update() pushed a timestep lower than the one shown before
C9_Witness ==
    /\ evicting
    /\ outcome = "pushed"
    /\ PyInt(shown.title) < PyInt(before.shown.title)

(***************************************************************************)
(* load_as_dask_array(keys).  LoadIter is one turn of the loop, with its   *)
(* try/except; LoadStack is dask.array.stack(dask_arrays), which raises    *)
(* on an empty list.                                                       *)
(***************************************************************************)
\* the paths the keys of SpecLoad are drawn from
LoadIds == { << "1" >>, << "2" >>, << "7", "x" >> }

InitLoad ==
    /\ hashSeed \in Seeds
    /\ KeysIdle
    /\ store \in SUBSET { Key(id, ZArray) : id \in LoadIds }
    /\ evicting \in BOOLEAN
    /\ nextStep = 0
    /\ UpdateIdle
    /\ loadKeys \in SeqsUpTo(LoadIds, MaxLoad)
    /\ li = 1
    /\ dask_arrays = << >>
    /\ labels = << >>
    /\ loadPc = "loop"

\* lines 229-235
LoadIter ==
    /\ loadPc = "loop"
    /\ li <= Len(loadKeys)
    /\ IF ~ArrayExists(store, loadKeys[li])
       THEN \* zarr.open_array raises ValueError: except, pass
            UNCHANGED << dask_arrays, labels >>
       ELSE /\ dask_arrays' = Append(dask_arrays, Grid(loadKeys[li]))
            /\ IF PyIntOk(loadKeys[li])
               THEN labels' = Append(labels, PyInt(loadKeys[li]))
               ELSE \* int(key) raises ValueError: except, pass
                    UNCHANGED labels
    /\ li' = li + 1
    /\ UNCHANGED << hashSeed, keyVars, storeVars, updateVars, loadKeys, loadPc >>

\* line 237
LoadStack ==
    /\ loadPc = "loop"
    /\ li > Len(loadKeys)
    /\ loadPc' = IF dask_arrays = << >> THEN "failed" ELSE "stacked"
    /\ UNCHANGED << hashSeed, keyVars, storeVars, updateVars, loadKeys, li,
                    dask_arrays, labels >>

NextLoad == LoadIter \/ LoadStack \/ Evict

SpecLoad == InitLoad /\ [][NextLoad]_vars

\* C10: when the loop is over, labels is as long as dask_arrays and the i-th
\* label is the integer value of the key whose array is the i-th.
C10_LabelsMatchArrays ==
    li > Len(loadKeys) =>
        /\ Len(labels) = Len(dask_arrays)
        /\ \A i \in 1..Len(dask_arrays) :
               /\ i <= Len(labels)
               /\ PyIntOk(dask_arrays[i].path)
               /\ labels[i] = PyInt(dask_arrays[i].path)

====
